---------------------------- MODULE Spec2Model ----------------------------
(***************************************************************************)
(* A model of starlette/response.py: the three response classes            *)
(* (Response and its fixed-media-type subclasses, StreamingResponse,       *)
(* FileResponse), their constructors and their ASGI transmission           *)
(* coroutines.  Every await of a coroutine is one step of the model.       *)
(*                                                                         *)
(* Representation.  A Python str is a TLA+ string.  The bytes of a header  *)
(* name, header value or media type are written as the latin-1 text they   *)
(* encode.  Body bytes are sequences of byte values 0..255; body text is a *)
(* sequence of Unicode code points.  An optional value is None (the empty  *)
(* tuple) or Some(v) (the one-element tuple).  A dict is the sequence of   *)
(* its (key, value) items in insertion order.                              *)
(***************************************************************************)
EXTENDS Integers, Sequences, FiniteSets, TLC

None == <<>>
Some(v) == <<v>>
Val(o) == o[1]

(***************************************************************************)
(* Bounds of the model.                                                    *)
(***************************************************************************)
\* transmissions of one response object
MaxCalls == 2
\* FileResponse.chunk_size, scaled down from 4096 so that files of a few
\* bytes span several chunks
chunk_size == 2
\* the largest file, in bytes
MaxFileSize == 5

(***************************************************************************)
(* Python built-ins used by the module.                                    *)
(***************************************************************************)
UpperCase == "ABCDEFGHIJKLMNOPQRSTUVWXYZ"
LowerCase == "abcdefghijklmnopqrstuvwxyz"

\* one character of str.lower()
lower_char(c) ==
    IF \E i \in 1..Len(UpperCase) : SubSeq(UpperCase, i, i) = c
    THEN LET i == CHOOSE j \in 1..Len(UpperCase) : SubSeq(UpperCase, j, j) = c
         IN  SubSeq(LowerCase, i, i)
    ELSE c

RECURSIVE lower(_)
\* str.lower()
lower(s) ==
    IF Len(s) = 0 THEN ""
    ELSE lower_char(SubSeq(s, 1, 1)) \o lower(SubSeq(s, 2, Len(s)))

\* str.startswith(prefix)
startswith(s, prefix) ==
    Len(s) >= Len(prefix) /\ SubSeq(s, 1, Len(prefix)) = prefix

\* str.endswith(suffix)
endswith(s, suffix) ==
    Len(s) >= Len(suffix) /\ SubSeq(s, Len(s) - Len(suffix) + 1, Len(s)) = suffix

Digits == "0123456789"

RECURSIVE str(_)
\* str(n) of a non-negative int: its decimal digits
str(n) ==
    IF n < 10 THEN SubSeq(Digits, n + 1, n + 1)
    ELSE str(n \div 10) \o SubSeq(Digits, (n % 10) + 1, (n % 10) + 1)

\* str(x) of a float holding a whole number of seconds, as os.stat_result.st_mtime
str_float(x) == str(x) \o ".0"

\* "%02d" % n
two_digits(n) == IF n < 10 THEN "0" \o str(n) ELSE str(n)

\* UTF-8 encoding of one code point below 2048
utf8_char(cp) ==
    IF cp < 128 THEN <<cp>>
    ELSE <<192 + (cp \div 64), 128 + (cp % 64)>>

RECURSIVE encode(_)
\* str.encode("utf-8") of a sequence of code points
encode(text) ==
    IF text = <<>> THEN <<>>
    ELSE utf8_char(Head(text)) \o encode(Tail(text))

\* Content is bytes or text: isinstance(content, bytes)
Bytes(b) == [type |-> "bytes", val |-> b]
Text(t) == [type |-> "str", val |-> t]
isinstance_bytes(content) == content.type = "bytes"

\* email.utils.formatdate(timeval, usegmt=True) for 0 <= timeval < 86400
formatdate(timeval) ==
    "Thu, 01 Jan 1970 " \o two_digits(timeval \div 3600) \o ":"
        \o two_digits((timeval % 3600) \div 60) \o ":"
        \o two_digits(timeval % 60) \o " GMT"

\* hashlib.md5(s.encode()).hexdigest(): an injective image of s
md5_hexdigest(s) == "md5<" \o s \o ">"

\* mimetypes.guess_type(name)[0] on the extensions the model uses
guess_type(name) ==
    IF endswith(name, ".txt") THEN Some("text/plain")
    ELSE IF endswith(name, ".png") THEN Some("image/png")
    ELSE None


(***************************************************************************)
(* The state.                                                              *)
(***************************************************************************)
VARIABLES
    cls,            \* the class of the response object
    content,        \* constructor argument: content (Response), the producer (StreamingResponse)
    headers,        \* constructor argument: None or a dict
    status_code,    \* self.status_code
    media_type,     \* self.media_type
    body,           \* getattr(self, "body", None)
    body_iterator,  \* self.body_iterator: what the producer has yet to yield
    raw_headers,    \* self.raw_headers, the list self.headers writes through to
    path,           \* self.path
    filename,       \* self.filename
    stat_result,    \* self.stat_result
    fs,             \* the file at self.path: its bytes and modification time
    pc,             \* position of the running __call__ coroutine
    calls,          \* transmissions started so far
    sent,           \* messages the channel accepted in the current transmission
    exc,            \* the exception the current transmission raised, or None
    fetched,        \* local stat_result of FileResponse.__call__
    file,           \* the open file handle: None, or Some(read position)
    chunk,          \* local chunk
    more_body,      \* local more_body
    yielded,        \* chunks pulled from the producer in the current transmission
    opened,         \* file handles acquired in the current transmission
    closed,         \* file handles released in the current transmission
    stats           \* aio_stat calls that returned in the current transmission

vars == <<cls, content, headers, status_code, media_type, body, body_iterator,
          raw_headers, path, filename, stat_result, fs, pc, calls, sent, exc,
          fetched, file, chunk, more_body, yielded, opened, closed, stats>>

object == <<cls, content, headers, status_code, media_type, body, path,
            filename, stat_result>>

(***************************************************************************)
(* Response                                                                *)
(***************************************************************************)
\* Response.charset
charset == "utf-8"

\* the class attribute media_type of each class
class_media_type(c) ==
    CASE c = "HTMLResponse" -> Some("text/html")
      [] c = "PlainTextResponse" -> Some("text/plain")
      [] OTHER -> None

\* Response.render
render(c) == IF isinstance_bytes(c) THEN c.val ELSE encode(c.val)

\* the list comprehension of init_headers: lower-cased names, values kept
normalize(items) ==
    [i \in 1..Len(items) |-> <<lower(items[i][1]), items[i][2]>>]

\* keys = [h[0] for h in raw_headers]
keys(raw) == {raw[i][1] : i \in 1..Len(raw)}

populate_content_length(hdrs) ==
    IF hdrs = None THEN TRUE
    ELSE "content-length" \in keys(normalize(Val(hdrs)))

populate_content_type(hdrs) ==
    IF hdrs = None THEN TRUE
    ELSE "content-type" \in keys(normalize(Val(hdrs)))

\* content_length = str(len(body))
content_length_value(b) == str(Len(b))

\* content_type_value with the charset parameter added to every media type
content_type_value_any(mt) == mt \o "; charset=" \o charset

\* content_type, with the charset parameter for text/ types
content_type_value(mt) ==
    IF startswith(mt, "text/") THEN mt \o "; charset=" \o charset ELSE mt

\* init_headers appending the type header before the length header
init_headers_type_first(hdrs, b, mt) ==
    LET raw0 == IF hdrs = None THEN <<>> ELSE normalize(Val(hdrs))
        raw1 == IF mt # None /\ populate_content_type(hdrs)
                THEN Append(raw0, <<"content-type", content_type_value(Val(mt))>>)
                ELSE raw0
    IN  IF b # None /\ populate_content_length(hdrs)
        THEN Append(raw1, <<"content-length", content_length_value(Val(b))>>)
        ELSE raw1

\* init_headers taking a missing body for an empty one
init_headers_empty_body(hdrs, b, mt) ==
    LET raw0 == IF hdrs = None THEN <<>> ELSE normalize(Val(hdrs))
        len == IF b = None THEN 0 ELSE Len(Val(b))
        raw1 == IF populate_content_length(hdrs)
                THEN Append(raw0, <<"content-length", str(len)>>)
                ELSE raw0
    IN  IF mt # None /\ populate_content_type(hdrs)
        THEN Append(raw1, <<"content-type", content_type_value(Val(mt))>>)
        ELSE raw1

\* Response.init_headers, as a function of the argument and of the two
\* attributes it reads
init_headers(hdrs, b, mt) ==
    LET raw0 == IF hdrs = None THEN <<>> ELSE normalize(Val(hdrs))
        raw1 == IF b # None /\ populate_content_length(hdrs)
                THEN Append(raw0, <<"content-length", content_length_value(Val(b))>>)
                ELSE raw0
    IN  IF mt # None /\ populate_content_type(hdrs)
        THEN Append(raw1, <<"content-type", content_type_value(Val(mt))>>)
        ELSE raw1

\* MutableHeaders.setdefault on the list the headers property wraps
setdefault(raw, key, value) ==
    IF lower(key) \in keys(raw) THEN raw
    ELSE Append(raw, <<lower(key), value>>)

\* the values the sequence holds under a name, in order
getlist(raw, key) ==
    LET idx == {i \in 1..Len(raw) : raw[i][1] = key}
        RECURSIVE pick(_)
        pick(i) == IF i > Len(raw) THEN <<>>
                   ELSE IF i \in idx THEN <<raw[i][2]>> \o pick(i + 1)
                   ELSE pick(i + 1)
    IN  pick(1)

(***************************************************************************)
(* FileResponse                                                            *)
(***************************************************************************)
\* etag_value with the two parts of etag_base exchanged
etag_value_swapped(st) ==
    md5_hexdigest(str(st.st_size) \o "-" \o str_float(st.st_mtime))

\* etag_base and etag of set_stat_headers
etag_value(st) ==
    md5_hexdigest(str_float(st.st_mtime) \o "-" \o str(st.st_size))

\* set_stat_headers appending to raw_headers without looking for the name
set_stat_headers_append(raw, st) ==
    raw \o << <<"content-length", str(st.st_size)>>,
              <<"last-modified", formatdate(st.st_mtime)>>,
              <<"etag", etag_value(st)>> >>

\* FileResponse.set_stat_headers
set_stat_headers(raw, st) ==
    LET r1 == setdefault(raw, "content-length", str(st.st_size))
        r2 == setdefault(r1, "last-modified", formatdate(st.st_mtime))
    IN  setdefault(r2, "etag", etag_value(st))

\* content_disposition of FileResponse.__init__
content_disposition(name) == "attachment; filename=\"" \o name \o "\""

\* media_type of FileResponse.__init__: guess_type(filename or path)[0] or "text/plain"
file_media_type(mt, fname, p) ==
    IF mt # None THEN mt
    ELSE LET name == IF fname # None /\ Val(fname) # "" THEN Val(fname) ELSE p
             guess == guess_type(name)
         IN  IF guess # None THEN guess ELSE Some("text/plain")

\* self.raw_headers when FileResponse.__init__ returns
file_init_headers(hdrs, mt, fname, st) ==
    LET r0 == init_headers(hdrs, None, mt)
        r1 == IF fname # None
              THEN setdefault(r0, "content-disposition", content_disposition(Val(fname)))
              ELSE r0
    IN  IF st # None THEN set_stat_headers(r1, Val(st)) ELSE r1

\* os.stat of the file
stat_of(f) == [st_size |-> Len(f.data), st_mtime |-> f.st_mtime]


\* the bytes of a file of n bytes: byte i holds i
FileData(n) == [i \in 1..n |-> i]

(***************************************************************************)
(* Constructor arguments the model draws from.                             *)
(***************************************************************************)
\* edits of the file the environment makes between transmissions
MaxWrites == 1

BaseClasses == {"Response", "HTMLResponse", "PlainTextResponse"}

HeaderArgs ==
    { None,
      Some(<<>>),
      Some(<< <<"Content-Length", "999">> >>),
      Some(<< <<"X-Trace", "1">>, <<"Content-Type", "application/x-custom">> >>),
      Some(<< <<"Content-Length", "999">>, <<"content-length", "7">> >>),
      Some(<< <<"ETag", "abc">>, <<"Content-Disposition", "inline">>,
              <<"Last-Modified", "never">> >>) }

ContentArgs ==
    { Bytes(<<>>), Bytes(<<104, 105>>), Text(<<104, 233>>) }

MediaTypeArgs == { None, Some("text/css"), Some("image/png") }

ProducerArgs ==
    { [kind |-> k, items |-> c] :
        k \in {"sync", "async"},
        c \in { <<>>,
                << Text(<<97>>), Text(<<98>>) >>,
                << Bytes(<<1, 2>>), Text(<<233>>), Bytes(<<>>) >> } }

NoProducer == [kind |-> "none", items |-> <<>>]

StatArgs(f) ==
    { None, Some(stat_of(f)), Some([st_size |-> 10, st_mtime |-> 1000]) }

\* the locals of a coroutine that is not running
Idle ==
    /\ pc = "idle" /\ calls = 0 /\ sent = <<>> /\ exc = None
    /\ fetched = None /\ file = None /\ chunk = <<>> /\ more_body = FALSE
    /\ yielded = <<>> /\ opened = 0 /\ closed = 0 /\ stats = 0

\* Response.__init__
Response_init ==
    /\ cls \in BaseClasses
    /\ content \in ContentArgs
    /\ headers \in HeaderArgs
    /\ status_code \in {200, 404}
    /\ \E mt \in MediaTypeArgs :
          media_type = IF mt # None THEN mt ELSE class_media_type(cls)
    /\ body = Some(render(content))
    /\ raw_headers = init_headers(headers, body, media_type)
    /\ body_iterator = NoProducer
    /\ path = "" /\ filename = None /\ stat_result = None
    /\ fs = [data |-> <<>>, st_mtime |-> 1000]

\* StreamingResponse.__init__
StreamingResponse_init ==
    /\ cls = "StreamingResponse"
    /\ content \in ProducerArgs
    /\ body_iterator = content
    /\ headers \in HeaderArgs
    /\ status_code \in {200, 404}
    /\ \E mt \in MediaTypeArgs :
          media_type = IF mt = None THEN class_media_type(cls) ELSE mt
    /\ body = None
    /\ raw_headers = init_headers(headers, body, media_type)
    /\ path = "" /\ filename = None /\ stat_result = None
    /\ fs = [data |-> <<>>, st_mtime |-> 1000]

\* FileResponse.__init__
FileResponse_init ==
    /\ cls = "FileResponse"
    /\ content = Bytes(<<>>)
    /\ path \in {"/srv/logo.png", "/srv/data"}
    /\ headers \in HeaderArgs
    /\ filename \in {None, Some("x.txt")}
    /\ \E n \in 0..MaxFileSize : fs = [data |-> FileData(n), st_mtime |-> 1000]
    /\ stat_result \in StatArgs(fs)
    /\ status_code = 200
    /\ \E mt \in {None, Some("application/pdf")} :
          media_type = file_media_type(mt, filename, path)
    /\ body = None
    /\ raw_headers = file_init_headers(headers, media_type, filename, stat_result)
    /\ body_iterator = NoProducer

Init ==
    /\ Idle
    /\ \/ Response_init
       \/ StreamingResponse_init
       \/ FileResponse_init

(***************************************************************************)
(* The channel.                                                            *)
(***************************************************************************)
start_message ==
    [type |-> "http.response.start", status |-> status_code, headers |-> raw_headers]

\* more_body of a body-message; ASGI reads a missing key as False
more_of(m) == IF "more_body" \in DOMAIN m THEN m.more_body ELSE FALSE

\* await send(message) returns
SendOk(message, next) ==
    /\ sent' = Append(sent, message)
    /\ pc' = next
    /\ exc' = exc

\* await send(message) raises; the coroutine goes to `next`
SendFails(next) ==
    /\ sent' = sent
    /\ exc' = Some("TransportError")
    /\ pc' = next

\* a coroutine is entered: its locals are fresh
Enter(first) ==
    /\ pc \in {"idle", "done", "raised"}
    /\ calls < MaxCalls
    /\ calls' = calls + 1
    /\ pc' = first
    /\ sent' = <<>> /\ exc' = None /\ fetched' = None /\ file' = None
    /\ chunk' = <<>> /\ more_body' = FALSE /\ yielded' = <<>>
    /\ opened' = 0 /\ closed' = 0 /\ stats' = 0
    /\ UNCHANGED <<object, body_iterator, raw_headers, fs>>

(***************************************************************************)
(* Response.__call__                                                       *)
(***************************************************************************)
Response_call ==
    /\ cls \in BaseClasses
    /\ Enter("start")

\* Response_body_message marked as having more to follow
Response_body_message_more ==
    [type |-> "http.response.body", body |-> Val(body), more_body |-> TRUE]

Response_body_message == [type |-> "http.response.body", body |-> Val(body)]

\* Response_send_start going on to the body after a failed send
Response_send_start_caught ==
    /\ cls \in BaseClasses /\ pc = "start"
    /\ \/ SendOk(start_message, "body")
       \/ SendFails("body")
    /\ UNCHANGED <<stats, object, body_iterator, raw_headers, fs, calls, fetched, file,
                   chunk, more_body, yielded, opened, closed>>

Response_send_start ==
    /\ cls \in BaseClasses /\ pc = "start"
    /\ \/ SendOk(start_message, "body")
       \/ SendFails("raised")
    /\ UNCHANGED <<stats, object, body_iterator, raw_headers, fs, calls, fetched, file,
                   chunk, more_body, yielded, opened, closed>>

Response_send_body ==
    /\ cls \in BaseClasses /\ pc = "body"
    /\ \/ SendOk(Response_body_message, "done")
       \/ SendFails("raised")
    /\ UNCHANGED <<stats, object, body_iterator, raw_headers, fs, calls, fetched, file,
                   chunk, more_body, yielded, opened, closed>>

(***************************************************************************)
(* StreamingResponse.__call__                                              *)
(***************************************************************************)
StreamingResponse_call ==
    /\ cls = "StreamingResponse"
    /\ Enter("start")

StreamingResponse_send_start ==
    /\ cls = "StreamingResponse" /\ pc = "start"
    /\ \/ SendOk(start_message, "iterate")
       \/ SendFails("raised")
    /\ UNCHANGED <<stats, object, body_iterator, raw_headers, fs, calls, fetched, file,
                   chunk, more_body, yielded, opened, closed>>

\* chunk = chunk.encode(self.charset) unless it is bytes
encode_chunk(c) == IF isinstance_bytes(c) THEN c.val ELSE encode(c.val)

\* one round of `async for chunk in self.body_iterator`
StreamingResponse_next ==
    /\ cls = "StreamingResponse" /\ pc = "iterate"
    /\ \/ /\ body_iterator.kind = "sync"     \* no __aiter__: TypeError
          /\ exc' = Some("TypeError")
          /\ pc' = "raised"
          /\ UNCHANGED <<body_iterator, chunk, yielded>>
       \/ /\ body_iterator.kind = "async"
          /\ body_iterator.items = <<>>      \* StopAsyncIteration
          /\ pc' = "final"
          /\ UNCHANGED <<body_iterator, chunk, yielded, exc>>
       \/ /\ body_iterator.kind = "async"
          /\ body_iterator.items # <<>>
          /\ chunk' = encode_chunk(Head(body_iterator.items))
          /\ yielded' = Append(yielded, Head(body_iterator.items))
          /\ body_iterator' = [body_iterator EXCEPT !.items = Tail(@)]
          /\ pc' = "send_chunk"
          /\ exc' = exc
    /\ UNCHANGED <<stats, object, raw_headers, fs, calls, sent, fetched, file,
                   more_body, opened, closed>>

StreamingResponse_chunk_message ==
    [type |-> "http.response.body", body |-> chunk, more_body |-> TRUE]

StreamingResponse_final_message ==
    [type |-> "http.response.body", body |-> <<>>, more_body |-> FALSE]

StreamingResponse_send_chunk ==
    /\ cls = "StreamingResponse" /\ pc = "send_chunk"
    /\ \/ SendOk(StreamingResponse_chunk_message, "iterate")
       \/ SendFails("raised")
    /\ UNCHANGED <<stats, object, body_iterator, raw_headers, fs, calls, fetched, file,
                   chunk, more_body, yielded, opened, closed>>

StreamingResponse_send_final ==
    /\ cls = "StreamingResponse" /\ pc = "final"
    /\ \/ SendOk(StreamingResponse_final_message, "done")
       \/ SendFails("raised")
    /\ UNCHANGED <<stats, object, body_iterator, raw_headers, fs, calls, fetched, file,
                   chunk, more_body, yielded, opened, closed>>


(***************************************************************************)
(* FileResponse.__call__                                                   *)
(***************************************************************************)
\* FileResponse_call fetching the metadata whether or not it was supplied
FileResponse_call_always_stat ==
    /\ cls = "FileResponse"
    /\ Enter("stat")

FileResponse_call ==
    /\ cls = "FileResponse"
    /\ Enter(IF stat_result = None THEN "stat" ELSE "start")

\* stat_result = await aio_stat(self.path); self.set_stat_headers(stat_result)
FileResponse_stat ==
    /\ cls = "FileResponse" /\ pc = "stat"
    /\ \/ /\ fetched' = Some(stat_of(fs))
          /\ raw_headers' = set_stat_headers(raw_headers, stat_of(fs))
          /\ stats' = stats + 1
          /\ pc' = "start"
          /\ exc' = exc
       \/ /\ exc' = Some("OSError")
          /\ pc' = "raised"
          /\ UNCHANGED <<fetched, raw_headers, stats>>
    /\ UNCHANGED <<object, body_iterator, fs, calls, sent, file, chunk,
                   more_body, yielded, opened, closed>>

FileResponse_send_start ==
    /\ cls = "FileResponse" /\ pc = "start"
    /\ \/ SendOk(start_message, "open")
       \/ SendFails("raised")
    /\ UNCHANGED <<stats, object, body_iterator, raw_headers, fs, calls, fetched, file,
                   chunk, more_body, yielded, opened, closed>>

\* async with aiofiles.open(self.path, mode="rb") as file: more_body = True
FileResponse_open ==
    /\ cls = "FileResponse" /\ pc = "open"
    /\ \/ /\ file' = Some(0)
          /\ opened' = opened + 1
          /\ more_body' = TRUE
          /\ pc' = "read"
          /\ exc' = exc
       \/ /\ exc' = Some("OSError")
          /\ pc' = "raised"
          /\ UNCHANGED <<file, opened, more_body>>
    /\ UNCHANGED <<stats, object, body_iterator, raw_headers, fs, calls, sent, fetched,
                   chunk, yielded, closed>>

\* file.read(n) at the handle's position
read(f, pos, n) ==
    SubSeq(f.data, pos + 1, IF pos + n < Len(f.data) THEN pos + n ELSE Len(f.data))

\* FileResponse_read with a loop that goes on until a read returns nothing
FileResponse_read_until_empty ==
    /\ cls = "FileResponse" /\ pc = "read"
    /\ \/ /\ chunk' = read(fs, Val(file), chunk_size)
          /\ file' = Some(Val(file) + Len(chunk'))
          /\ more_body' = (Len(chunk') > 0)
          /\ pc' = "send_chunk"
          /\ exc' = exc
       \/ /\ exc' = Some("OSError")
          /\ pc' = "exit"
          /\ UNCHANGED <<chunk, file, more_body>>
    /\ UNCHANGED <<stats, object, body_iterator, raw_headers, fs, calls, sent, fetched,
                   yielded, opened, closed>>

\* FileResponse_read on a handle no scope guards: a failed read leaves it open
FileResponse_read_unscoped ==
    /\ cls = "FileResponse" /\ pc = "read"
    /\ \/ /\ chunk' = read(fs, Val(file), chunk_size)
          /\ file' = Some(Val(file) + Len(chunk'))
          /\ more_body' = (Len(chunk') = chunk_size)
          /\ pc' = "send_chunk"
          /\ exc' = exc
       \/ /\ exc' = Some("OSError")
          /\ pc' = "raised"
          /\ UNCHANGED <<chunk, file, more_body>>
    /\ UNCHANGED <<stats, object, body_iterator, raw_headers, fs, calls, sent, fetched,
                   yielded, opened, closed>>

\* chunk = await file.read(self.chunk_size); more_body = len(chunk) == self.chunk_size
FileResponse_read ==
    /\ cls = "FileResponse" /\ pc = "read"
    /\ \/ /\ chunk' = read(fs, Val(file), chunk_size)
          /\ file' = Some(Val(file) + Len(chunk'))
          /\ more_body' = (Len(chunk') = chunk_size)
          /\ pc' = "send_chunk"
          /\ exc' = exc
       \/ /\ exc' = Some("OSError")
          /\ pc' = "exit"
          /\ UNCHANGED <<chunk, file, more_body>>
    /\ UNCHANGED <<stats, object, body_iterator, raw_headers, fs, calls, sent, fetched,
                   yielded, opened, closed>>

FileResponse_chunk_message ==
    [type |-> "http.response.body", body |-> chunk, more_body |-> FALSE]

\* FileResponse_send_chunk with the failure of a send caught and the loop continued
FileResponse_send_chunk_caught ==
    /\ cls = "FileResponse" /\ pc = "send_chunk"
    /\ \/ SendOk(FileResponse_chunk_message, IF more_body THEN "read" ELSE "exit")
       \/ SendFails(IF more_body THEN "read" ELSE "exit")
    /\ UNCHANGED <<stats, object, body_iterator, raw_headers, fs, calls, fetched, file,
                   chunk, more_body, yielded, opened, closed>>

\* the send of the loop body, and the loop test that follows it
FileResponse_send_chunk ==
    /\ cls = "FileResponse" /\ pc = "send_chunk"
    /\ \/ SendOk(FileResponse_chunk_message, IF more_body THEN "read" ELSE "exit")
       \/ SendFails("exit")
    /\ UNCHANGED <<stats, object, body_iterator, raw_headers, fs, calls, fetched, file,
                   chunk, more_body, yielded, opened, closed>>

\* leaving the async with block, normally or by an exception: the handle is closed
FileResponse_exit ==
    /\ cls = "FileResponse" /\ pc = "exit"
    /\ file' = None
    /\ closed' = closed + 1
    /\ pc' = IF exc = None THEN "done" ELSE "raised"
    /\ UNCHANGED <<stats, object, body_iterator, raw_headers, fs, calls, sent, exc,
                   fetched, chunk, more_body, yielded, opened>>

(***************************************************************************)
(* The environment: the file is rewritten while no transmission runs.      *)
(***************************************************************************)
FileWrite ==
    /\ cls = "FileResponse"
    /\ pc \in {"idle", "done", "raised"}
    /\ calls < MaxCalls
    /\ fs.st_mtime < 1000 + MaxWrites
    /\ \E n \in (0..MaxFileSize) \ {Len(fs.data)} :
          fs' = [data |-> FileData(n), st_mtime |-> fs.st_mtime + 1]
    /\ UNCHANGED <<stats, object, body_iterator, raw_headers, pc, calls, sent, exc,
                   fetched, file, chunk, more_body, yielded, opened, closed>>

Next ==
    \/ Response_call
    \/ Response_send_start
    \/ Response_send_body
    \/ StreamingResponse_call
    \/ StreamingResponse_send_start
    \/ StreamingResponse_next
    \/ StreamingResponse_send_chunk
    \/ StreamingResponse_send_final
    \/ FileResponse_call
    \/ FileResponse_stat
    \/ FileResponse_send_start
    \/ FileResponse_open
    \/ FileResponse_read
    \/ FileResponse_send_chunk
    \/ FileResponse_exit
    \/ FileWrite

Spec == Init /\ [][Next]_vars


(***************************************************************************)
(* Reading the channel.                                                    *)
(***************************************************************************)
is_start(m) == m.type = "http.response.start"
is_body(m) == m.type = "http.response.body"

\* the positions of the body-messages of the current transmission
BodyIndexes == {i \in 1..Len(sent) : is_body(sent[i])}

\* the transmission has returned or raised
Returned == pc \in {"done", "raised"}

\* the object is constructed and no transmission has begun
Constructed == pc = "idle" /\ calls = 0

\* the items of each dict a caller may supply, as init_headers normalizes them
CallerNormalized ==
    [h \in HeaderArgs |-> IF h = None THEN <<>> ELSE normalize(Val(h))]

\* the names of the dict the caller supplied, as init_headers normalizes them
CallerKeys == keys(CallerNormalized[headers])

(***************************************************************************)
(* C1.  A FileResponse sending a file larger than the chunk size marks     *)
(* every body-message but the last more_body=True, and the last one        *)
(* more_body=False; nothing follows a message marked more_body=False.      *)
(***************************************************************************)
C1_FileMoreBodyFraming ==
    (cls = "FileResponse" /\ pc \in {"read", "send_chunk", "exit", "done"}
        /\ Len(fs.data) > chunk_size) =>
        /\ \A i \in BodyIndexes :
              (\E j \in BodyIndexes : j > i) => more_of(sent[i]) = TRUE
        /\ pc = "done" =>
              /\ BodyIndexes # {}
              /\ more_of(sent[Len(sent)]) = FALSE

(***************************************************************************)
(* C2.  A StreamingResponse whose sends all succeed emits the start        *)
(* message, one more_body=True body-message per chunk of the producer in   *)
(* order (text chunks encoded), and one empty more_body=False message:     *)
(* n+2 messages, the terminal one last and the only one.                   *)
(***************************************************************************)
C2_Expected(chunks) ==
    <<start_message>>
    \o [i \in 1..Len(chunks) |->
          [type |-> "http.response.body", body |-> encode_chunk(chunks[i]),
           more_body |-> TRUE]]
    \o << [type |-> "http.response.body", body |-> <<>>, more_body |-> FALSE] >>

C2_StreamingMessageOrder ==
    (cls = "StreamingResponse" /\ calls = 1 /\ Returned
        /\ exc # Some("TransportError")) =>
        /\ pc = "done"
        /\ sent = C2_Expected(content.items)
        /\ Len(sent) = Len(content.items) + 2

\* what holds of the asynchronous producers
C2_AsyncMessageOrder ==
    (cls = "StreamingResponse" /\ pc = "done") =>
        /\ body_iterator.items = <<>>
        /\ sent = C2_Expected(yielded)
        /\ calls = 1 => yielded = content.items

(***************************************************************************)
(* C3.  A Response transmission whose sends succeed emits two messages:    *)
(* the start message with the status code and the header sequence, then    *)
(* one body-message with the whole rendered body, terminal; nothing is     *)
(* sent before the start message, between the two, or after the body.      *)
(***************************************************************************)
C3_BaseTwoMessages ==
    cls \in BaseClasses =>
        LET start == [type |-> "http.response.start", status |-> status_code,
                      headers |-> init_headers(headers, Some(render(content)), media_type)]
        IN  /\ pc \in {"idle", "start"} => sent = <<>>
            /\ pc = "body" => sent = <<start>>
            /\ pc = "raised" => sent \in {<<>>, <<start>>}
            /\ pc = "done" =>
                  /\ Len(sent) = 2
                  /\ sent[1] = start
                  /\ is_body(sent[2])
                  /\ sent[2].body = render(content)
                  /\ more_of(sent[2]) = FALSE

C3_Witness ==
    /\ cls \in BaseClasses /\ pc = "done" /\ exc = None
    /\ Len(sent) = 2 /\ Len(sent[2].body) = 3 /\ Len(sent[1].headers) = 2


(***************************************************************************)
(* C4.  A header the caller supplies under an auto-populated name          *)
(* (content-length, content-type, in any case) suppresses the              *)
(* auto-population: the sequence holds under that name the caller's        *)
(* values and nothing the constructor computed.                            *)
(***************************************************************************)
C4_CallerHeaderSuppresses ==
    (Constructed /\ headers # None) =>
        \A name \in {"content-length", "content-type"} \cap CallerKeys :
            getlist(raw_headers, name) = getlist(normalize(Val(headers)), name)

(***************************************************************************)
(* C5.  When the caller supplies a dict without a length header, a         *)
(* Response (whose body length is known) gets a content-length equal to    *)
(* the byte length of its body; when the dict has no type header and a     *)
(* media type is set, the response gets a content-type.                    *)
(***************************************************************************)
C5_InjectsWhenCallerLacks ==
    (Constructed /\ headers # None) =>
        /\ (cls \in BaseClasses /\ "content-length" \notin CallerKeys) =>
              getlist(raw_headers, "content-length") = <<str(Len(Val(body)))>>
        /\ (media_type # None /\ "content-type" \notin CallerKeys) =>
              Len(getlist(raw_headers, "content-type")) = 1

(***************************************************************************)
(* C6.  A Response built from bytes c with headers=None has a              *)
(* content-length of decimal len(c); it has a content-type exactly when a  *)
(* media type is set, and that value ends in "; charset=utf-8" exactly     *)
(* when the media type starts with "text/".                                *)
(***************************************************************************)
C6_DefaultHeaders ==
    (cls \in BaseClasses /\ isinstance_bytes(content) /\ headers = None) =>
        LET ctype == getlist(raw_headers, "content-type")
        IN  /\ getlist(raw_headers, "content-length") = <<str(Len(content.val))>>
            /\ (ctype # <<>>) <=> (media_type # None)
            /\ media_type # None =>
                  /\ Len(ctype) = 1
                  /\ startswith(ctype[1], Val(media_type))
                  /\ endswith(ctype[1], "; charset=" \o charset)
                        <=> startswith(Val(media_type), "text/")

C6_Witness ==
    /\ cls = "Response" /\ headers = None /\ content = Bytes(<<104, 105>>)
    /\ media_type = Some("text/css")
    /\ raw_headers = << <<"content-length", "2">>,
                        <<"content-type", "text/css; charset=utf-8">> >>

(***************************************************************************)
(* C7.  The header sequence of every response, at construction and in      *)
(* every start message, holds at most one entry per lower-cased name.      *)
(***************************************************************************)
UniqueNames(raw) == Cardinality(keys(raw)) = Len(raw)

C7_UniqueHeaderNames ==
    /\ UniqueNames(raw_headers)
    /\ \A i \in 1..Len(sent) : is_start(sent[i]) => UniqueNames(sent[i].headers)

(***************************************************************************)
(* C8.  A FileResponse built without stat_result has no content-length,    *)
(* last-modified or etag of its own at construction; the start message of  *)
(* each of its transmissions carries the three computed from the stat      *)
(* fetched in that transmission (under the names the caller left free).    *)
(***************************************************************************)
CacheNames == {"content-length", "last-modified", "etag"}

CacheValue(name, st) ==
    CASE name = "content-length" -> str(st.st_size)
      [] name = "last-modified" -> formatdate(st.st_mtime)
      [] name = "etag" -> md5_hexdigest(str_float(st.st_mtime) \o "-" \o str(st.st_size))

C8_DeferredCacheHeaders ==
    (cls = "FileResponse" /\ stat_result = None) =>
        /\ Constructed =>
              \A name \in CacheNames \ CallerKeys : getlist(raw_headers, name) = <<>>
        /\ (sent # <<>> /\ fetched # None) =>
              \A name \in CacheNames \ CallerKeys :
                  getlist(sent[1].headers, name) = <<CacheValue(name, Val(fetched))>>

\* what holds of the first transmission
C8_FirstTransmission ==
    (cls = "FileResponse" /\ stat_result = None) =>
        /\ Constructed =>
              \A name \in CacheNames \ CallerKeys : getlist(raw_headers, name) = <<>>
        /\ (sent # <<>> /\ calls = 1) =>
              /\ fetched # None
              /\ \A name \in CacheNames \ CallerKeys :
                    getlist(sent[1].headers, name) = <<CacheValue(name, Val(fetched))>>


(***************************************************************************)
(* C9.  A FileResponse built with stat_result (size s, mtime m) and a      *)
(* filename f, and no caller headers, holds before any transmission the    *)
(* disposition 'attachment; filename="f"', a content-length of decimal s,  *)
(* a last-modified that is the GMT date of m, and an etag that is the      *)
(* digest of "<m>-<s>".                                                    *)
(***************************************************************************)
C9_StatHeadersAtConstruction ==
    (cls = "FileResponse" /\ Constructed /\ stat_result # None
        /\ filename # None /\ headers \in {None, Some(<<>>)}) =>
        LET st == Val(stat_result)
        IN  /\ getlist(raw_headers, "content-disposition")
                  = << "attachment; filename=\"" \o Val(filename) \o "\"" >>
            /\ getlist(raw_headers, "content-length") = <<str(st.st_size)>>
            /\ getlist(raw_headers, "last-modified") = <<formatdate(st.st_mtime)>>
            /\ getlist(raw_headers, "etag")
                  = << md5_hexdigest(str(st.st_mtime) \o ".0-" \o str(st.st_size)) >>
            /\ (st.st_size = 10 /\ st.st_mtime = 1000) =>
                  /\ getlist(raw_headers, "last-modified")
                        = <<"Thu, 01 Jan 1970 00:16:40 GMT">>
                  /\ getlist(raw_headers, "etag") = <<md5_hexdigest("1000.0-10")>>

C9_Witness ==
    /\ cls = "FileResponse" /\ Constructed /\ headers = None
    /\ filename = Some("x.txt")
    /\ stat_result = Some([st_size |-> 10, st_mtime |-> 1000])
    /\ Len(fs.data) # 10
    /\ raw_headers = << <<"content-type", "text/plain; charset=utf-8">>,
                        <<"content-disposition", "attachment; filename=\"x.txt\"">>,
                        <<"content-length", "10">>,
                        <<"last-modified", "Thu, 01 Jan 1970 00:16:40 GMT">>,
                        <<"etag", "md5<1000.0-10>">> >>

(***************************************************************************)
(* C10.  A FileResponse transmission acquires the file handle only after   *)
(* the start message is sent, at most once, and releases it exactly once   *)
(* on every way out: when it returns or raises no handle is open.          *)
(***************************************************************************)
C10_FileHandleScoped ==
    cls = "FileResponse" =>
        /\ opened \in {0, 1}
        /\ closed = (IF file = None THEN opened ELSE opened - 1)
        /\ opened = 1 => (sent # <<>> /\ is_start(sent[1]))
        /\ (file # None) <=> (pc \in {"read", "send_chunk", "exit"})
        /\ Returned => (file = None /\ closed = opened)
        /\ pc = "done" => (opened = 1 /\ closed = 1)

\* a read failed after a chunk was sent, and the handle was released
C10_Witness ==
    /\ cls = "FileResponse" /\ pc = "raised" /\ exc = Some("OSError")
    /\ Len(sent) = 2 /\ opened = 1 /\ closed = 1 /\ file = None

\* a send failed in the loop, and the handle was released
C10_WitnessSendFailure ==
    /\ cls = "FileResponse" /\ pc = "raised" /\ exc = Some("TransportError")
    /\ Len(sent) = 2 /\ opened = 1 /\ closed = 1 /\ file = None


(***************************************************************************)
(* C11.  Once a send has failed in a StreamingResponse or FileResponse     *)
(* transmission, that transmission sends nothing more, pulls no chunk      *)
(* from the producer, reads nothing from the file, does not send again,    *)
(* and ends by raising the failure.                                        *)
(***************************************************************************)
SendFailed == exc = Some("TransportError")

C11_SendFailureStops ==
    /\ []((cls \in {"StreamingResponse", "FileResponse"} /\ SendFailed) =>
              pc \in {"exit", "raised"})
    /\ [][(cls \in {"StreamingResponse", "FileResponse"} /\ SendFailed
              /\ calls' = calls) =>
              /\ sent' = sent
              /\ body_iterator' = body_iterator
              /\ yielded' = yielded
              /\ chunk' = chunk
              /\ file' \in {file, None}
              /\ exc' = exc
              /\ pc' = "raised"]_vars

\* a send failed with chunks left in the producer
C11_Witness ==
    /\ cls = "StreamingResponse" /\ pc = "raised" /\ SendFailed
    /\ Len(sent) = 2 /\ Len(body_iterator.items) = 1

\* a send failed with bytes left in the file
C11_WitnessFile ==
    /\ cls = "FileResponse" /\ pc = "raised" /\ SendFailed
    /\ Len(sent) = 2 /\ more_body /\ closed = 1

(***************************************************************************)
(* C12.  A StreamingResponse takes a synchronous or an asynchronous        *)
(* iterable: with either, a transmission whose sends succeed sends every   *)
(* chunk and ends with the terminal body-message.                          *)
(***************************************************************************)
C12_SyncAndAsyncProducers ==
    \A kind \in {"sync", "async"} :
        (cls = "StreamingResponse" /\ content.kind = kind /\ calls = 1
            /\ Returned /\ ~SendFailed) =>
            /\ pc = "done"
            /\ yielded = content.items
            /\ sent[Len(sent)] = StreamingResponse_final_message

(***************************************************************************)
(* C13.  After construction a StreamingResponse, and a FileResponse built  *)
(* without stat_result, hold no content-length but the caller's.           *)
(***************************************************************************)
CallerValues(name) == getlist(CallerNormalized[headers], name)

C13_NoAutomaticLength ==
    (Constructed
        /\ (cls = "StreamingResponse" \/ (cls = "FileResponse" /\ stat_result = None))) =>
        getlist(raw_headers, "content-length") = CallerValues("content-length")

C13_Witness ==
    /\ Constructed /\ cls = "StreamingResponse" /\ headers = None
    /\ content.items # <<>> /\ media_type = Some("text/css")
    /\ raw_headers = << <<"content-type", "text/css; charset=utf-8">> >>

C13_WitnessCaller ==
    /\ Constructed /\ cls = "FileResponse" /\ stat_result = None
    /\ getlist(raw_headers, "content-length") = <<"999">>


(***************************************************************************)
(* C14.  The setdefault calls of a FileResponse (content-disposition at    *)
(* construction; content-length, last-modified and etag at construction    *)
(* or at transmission) neither replace nor add to what the sequence holds  *)
(* under a name: a header the caller supplied under one of the four names  *)
(* is in raw_headers and in every start message with the caller's value    *)
(* and as often as the caller gave it, and a name the caller left free is  *)
(* there at most once.                                                     *)
(***************************************************************************)
SetDefaultNames == {"content-disposition", "content-length", "last-modified", "etag"}

HoldsCallerValues(raw) ==
    /\ \A name \in SetDefaultNames \cap CallerKeys :
          getlist(raw, name) = CallerValues(name)
    /\ \A name \in SetDefaultNames \ CallerKeys :
          Len(getlist(raw, name)) <= 1

C14_SetDefaultKeepsCaller ==
    cls = "FileResponse" =>
        /\ HoldsCallerValues(raw_headers)
        /\ \A i \in 1..Len(sent) : is_start(sent[i]) => HoldsCallerValues(sent[i].headers)

\* the caller's etag, disposition and date went out, in a transmission that fetched the stat
C14_Witness ==
    /\ cls = "FileResponse" /\ pc = "done" /\ filename # None /\ fetched # None
    /\ getlist(sent[1].headers, "etag") = <<"abc">>
    /\ getlist(sent[1].headers, "content-disposition") = <<"inline">>
    /\ getlist(sent[1].headers, "last-modified") = <<"never">>
    /\ Len(getlist(sent[1].headers, "content-length")) = 1

\* the caller's length went out, with the stat supplied at construction
C14_WitnessLength ==
    /\ cls = "FileResponse" /\ pc = "done" /\ stat_result # None
    /\ getlist(sent[1].headers, "content-length") = <<"999">>

(***************************************************************************)
(* C15.  A FileResponse transmission calls aio_stat once if stat_result    *)
(* was not supplied, and the call has returned before the start message    *)
(* is sent; if stat_result was supplied it calls aio_stat never, and the   *)
(* headers carry the supplied values.                                      *)
(***************************************************************************)
C15_StatFetchedOnceIfAbsent ==
    cls = "FileResponse" =>
        /\ stats \in {0, 1}
        /\ (stats = 1) <=> (fetched # None)
        /\ stat_result # None => stats = 0
        /\ (stat_result = None /\ pc \notin {"idle", "stat", "raised"}) => stats = 1
        /\ (stat_result = None /\ sent # <<>>) => stats = 1
        /\ (stat_result # None /\ sent # <<>>) =>
              \A name \in CacheNames \ CallerKeys :
                  getlist(sent[1].headers, name) = <<CacheValue(name, Val(stat_result))>>

C15_Witness ==
    /\ cls = "FileResponse" /\ stat_result = None /\ pc = "done"
    /\ calls = 2 /\ stats = 1 /\ Len(sent) = 3

\* a supplied stat that is not the file's went out as it was
C15_WitnessSupplied ==
    /\ cls = "FileResponse" /\ stat_result # None /\ pc = "done" /\ stats = 0
    /\ Val(stat_result).st_size # Len(fs.data) /\ headers = None
    /\ getlist(sent[1].headers, "content-length") = <<"10">>

(***************************************************************************)
(* C16.  The sequence init_headers produces starts with the caller's       *)
(* items in the caller's order, names lower-cased and values as given;     *)
(* what init_headers adds comes after them, a content-length before a      *)
(* content-type.                                                           *)
(***************************************************************************)
CallerItems == IF headers = None THEN <<>> ELSE Val(headers)

C16_CallerPrefixThenAuto ==
    Constructed =>
        /\ Len(raw_headers) >= Len(CallerItems)
        /\ \A i \in 1..Len(CallerItems) :
              /\ raw_headers[i][1] = lower(CallerItems[i][1])
              /\ raw_headers[i][2] = CallerItems[i][2]
        /\ cls # "FileResponse" =>
              LET added == SubSeq(raw_headers, Len(CallerItems) + 1, Len(raw_headers))
              IN  [i \in 1..Len(added) |-> added[i][1]]
                      \in { <<>>, <<"content-length">>, <<"content-type">>,
                            <<"content-length", "content-type">> }

\* caller items in mixed case, then both automatic headers
C16_Witness ==
    /\ Constructed /\ cls = "PlainTextResponse"
    /\ headers = Some(<< <<"X-Trace", "1">>, <<"Content-Type", "application/x-custom">> >>)
    /\ Len(raw_headers) = 3
    /\ raw_headers[1] = <<"x-trace", "1">>
    /\ raw_headers[3][1] = "content-type"

C16_WitnessBoth ==
    /\ Constructed /\ cls = "Response" /\ headers = None
    /\ [i \in 1..Len(raw_headers) |-> raw_headers[i][1]]
          = <<"content-length", "content-type">>


(***************************************************************************)
(* C17.  Transmitting a Response changes nothing of the object: its        *)
(* status code, header sequence and body are after every step what they    *)
(* were before it, and the start message carries that header sequence.  A  *)
(* failed send, the first or the second, ends the transmission by raising: *)
(* no send is repeated and none follows.                                   *)
(***************************************************************************)
C17_Step ==
    cls \in BaseClasses =>
        /\ status_code' = status_code
        /\ raw_headers' = raw_headers
        /\ body' = body
        /\ media_type' = media_type
        /\ (SendFailed /\ calls' = calls) => (sent' = sent /\ pc' = pc)

C17_TransmissionIsPure ==
    /\ [](cls \in BaseClasses =>
             /\ sent # <<>> =>
                   /\ sent[1].headers = raw_headers
                   /\ sent[1].status = status_code
             /\ SendFailed => pc = "raised")
    /\ [][C17_Step]_vars

\* the second send of a second transmission failed
C17_Witness ==
    /\ cls \in BaseClasses /\ pc = "raised" /\ SendFailed
    /\ calls = 2 /\ Len(sent) = 1 /\ Len(raw_headers) = 2

(***************************************************************************)
(* C18.  With reads and sends that succeed, the read loop of a             *)
(* FileResponse on a file of s bytes and a chunk size of k sends full      *)
(* chunks of k bytes while it goes on, stops at the first short read, and  *)
(* has then sent floor(s/k)+1 body-messages whose bodies, in order, are    *)
(* the file; the last one is short, and empty when k divides s.            *)
(***************************************************************************)
RECURSIVE BodiesFrom(_)
\* the bodies of the body-messages sent[i..], concatenated
BodiesFrom(i) ==
    IF i > Len(sent) THEN <<>>
    ELSE (IF is_body(sent[i]) THEN sent[i].body ELSE <<>>) \o BodiesFrom(i + 1)

C18_ReadLoop ==
    cls = "FileResponse" =>
        LET s == Len(fs.data)
            k == chunk_size
            n == Cardinality(BodyIndexes)
        IN  /\ (pc = "read") =>
                  /\ \A i \in BodyIndexes : Len(sent[i].body) = k
                  /\ Val(file) = n * k
                  /\ BodiesFrom(1) = SubSeq(fs.data, 1, n * k)
            /\ (pc = "exit" /\ exc = None) =>
                  /\ n = (s \div k) + 1
                  /\ BodiesFrom(1) = fs.data
                  /\ \A i \in BodyIndexes : i < Len(sent) => Len(sent[i].body) = k
                  /\ Len(sent[Len(sent)].body) = s % k
                  /\ ~more_body
            /\ (pc = "done") =>
                  /\ n >= 1
                  /\ \A i \in BodyIndexes : i < Len(sent) => Len(sent[i].body) = k
                  /\ Len(sent[Len(sent)].body) < k

\* a file of two full chunks: three body-messages, the last one empty
C18_Witness ==
    /\ cls = "FileResponse" /\ pc = "exit" /\ exc = None
    /\ Len(fs.data) = 2 * chunk_size
    /\ Cardinality(BodyIndexes) = 3
    /\ sent[Len(sent)].body = <<>>

\* a file that ends inside a chunk
C18_WitnessShort ==
    /\ cls = "FileResponse" /\ pc = "exit" /\ exc = None
    /\ Len(fs.data) = chunk_size + 1
    /\ Cardinality(BodyIndexes) = 2
    /\ Len(sent[Len(sent)].body) = 1

(***************************************************************************)
(* C19.  In a completed FileResponse transmission for which the caller     *)
(* gave no length header, the content-length of the start message is the   *)
(* number of bytes the body-messages carry, with the stat supplied or      *)
(* fetched.                                                                *)
(***************************************************************************)
C19_LengthMatchesBody ==
    (cls = "FileResponse" /\ pc = "done" /\ "content-length" \notin CallerKeys) =>
        getlist(sent[1].headers, "content-length") = <<str(Len(BodiesFrom(1)))>>

\* what holds: the first transmission that fetches its stat
C19_FetchedFirstTransmission ==
    (cls = "FileResponse" /\ pc = "done" /\ "content-length" \notin CallerKeys
        /\ stat_result = None /\ calls = 1) =>
        getlist(sent[1].headers, "content-length") = <<str(Len(BodiesFrom(1)))>>

=============================================================================
